---- MODULE Spec2Model ----
(***************************************************************************)
(* copilotfeedback: the unified-diff parser (parser.py), the review        *)
(* session that attaches comments to diff lines (app.py) and the feedback  *)
(* emitter (output.py).                                                    *)
(*                                                                         *)
(* Text is modelled as it is in the program: a line is a sequence of       *)
(* one-character strings, so that startswith, slicing, strip, split and    *)
(* the hunk regular expression are computed, not assumed.                  *)
(* None is -1 for the integer fields (line numbers and indices are never   *)
(* negative); an optional object is a sequence of length 0 or 1.           *)
(* Positions (file_line_idx, widget.index, edit_line_idx) are zero-based   *)
(* as in the source; a Python list l[i] is the TLA+ sequence element       *)
(* l[i + 1].                                                               *)
(***************************************************************************)
EXTENDS Integers, Sequences, FiniteSets, TLC

VARIABLES
    pc,            \* "main" | "parsing" | "parsed" | "review" | "done"
    lines,         \* parse_diff: diff_text.split("\n")
    i,             \* parse_diff: number of lines the for loop has consumed
    files,         \* diff.files
    current_file,  \* parse_diff: current_file (<<>> is None)
    current_hunk,  \* parse_diff: current_hunk
    old_line_no,   \* parse_diff: old_line_no
    new_line_no,   \* parse_diff: new_line_no
    focused,       \* index of the focused DiffLineWidget, None otherwise
    editing,       \* DiffReviewApp.editing
    edit_line_idx, \* DiffReviewApp.edit_line_idx
    notice,        \* the last message printed or notified
    feedback,      \* the record generate_feedback wrote (<<>> before it ran)
    last           \* history: the handler that ran last and how it ended

vars == <<pc, lines, i, files, current_file, current_hunk, old_line_no,
          new_line_no, focused, editing, edit_line_idx, notice, feedback, last>>

parserVars == <<lines, i, files, current_file, current_hunk, old_line_no, new_line_no>>

sessionVars == <<focused, editing, edit_line_idx, feedback>>

None == -1

(***************************************************************************)
(* Bounds.                                                                 *)
(***************************************************************************)
\* longest input, in lines, drawn freely over Alphabet
MaxLines == 4

\* longest input, in lines, drawn freely over SessionAlphabet
MaxSessionLines == 2

(***************************************************************************)
(* String primitives.                                                      *)
(***************************************************************************)
Digits == <<"0", "1", "2", "3", "4", "5", "6", "7", "8", "9">>

IsDigit(c) == \E d \in 1..10 : Digits[d] = c

DigitVal(c) == (CHOOSE d \in 1..10 : Digits[d] = c) - 1

IsSpace(c) == c \in {" ", "\t"}

\* s.startswith(prefix)
StartsWith(s, prefix) ==
    /\ Len(s) >= Len(prefix)
    /\ SubSeq(s, 1, Len(prefix)) = prefix

\* s[n:]
DropFirst(s, n) == IF Len(s) <= n THEN <<>> ELSE SubSeq(s, n + 1, Len(s))

\* s.strip()
Strip(s) ==
    LET keep == {k \in 1..Len(s) : ~IsSpace(s[k])}
    IN  IF keep = {} THEN <<>>
        ELSE SubSeq(s, CHOOSE a \in keep : \A k \in keep : a <= k,
                       CHOOSE b \in keep : \A k \in keep : b >= k)

\* the end (exclusive) of the longest run of digits of s that starts at p
DigitRunEnd(s, p) ==
    CHOOSE q \in p..(Len(s) + 1) :
        /\ \A k \in p..(q - 1) : IsDigit(s[k])
        /\ q = Len(s) + 1 \/ ~IsDigit(s[q])

\* int(s[p..q-1])
RECURSIVE ToInt(_, _, _)
ToInt(s, p, q) ==
    IF q <= p THEN 0 ELSE 10 * ToInt(s, p, q - 1) + DigitVal(s[q - 1])

\* s[p..] starts with lit
HasAt(s, p, lit) ==
    /\ p + Len(lit) - 1 <= Len(s)
    /\ SubSeq(s, p, p + Len(lit) - 1) = lit

\* p after an optional "," at p
SkipComma(s, p) == IF HasAt(s, p, <<",">>) THEN p + 1 ELSE p

(***************************************************************************)
(* re.match(r"@@ -(\d+),?\d* \+(\d+),?\d* @@.*", line): every quantifier   *)
(* is followed by a character it cannot match, so the greedy match is the  *)
(* only one.                                                               *)
(***************************************************************************)
HunkMatch(line) ==
    LET p1 == 5
        q1 == DigitRunEnd(line, p1)
        r1 == DigitRunEnd(line, SkipComma(line, q1))
        p2 == r1 + 2
        q2 == DigitRunEnd(line, p2)
        r2 == DigitRunEnd(line, SkipComma(line, q2))
        ok == /\ HasAt(line, 1, <<"@", "@", " ", "-">>)
              /\ q1 > p1
              /\ HasAt(line, r1, <<" ", "+">>)
              /\ q2 > p2
              /\ HasAt(line, r2, <<" ", "@", "@">>)
    IN  IF ok
        THEN [ok |-> TRUE, old |-> ToInt(line, p1, q1), new |-> ToInt(line, p2, q2)]
        ELSE [ok |-> FALSE, old |-> 0, new |-> 0]

\* line.split("@@")[1].strip() for a line that starts with "@@"
HunkText(line) ==
    LET ends == {k \in 3..(Len(line) - 1) : line[k] = "@" /\ line[k + 1] = "@"}
        stop == IF ends = {} THEN Len(line) + 1
                ELSE CHOOSE k \in ends : \A m \in ends : k <= m
    IN  Strip(SubSeq(line, 3, stop - 1))

(***************************************************************************)
(* models.py                                                               *)
(***************************************************************************)
DiffLine(line_type, content, old, new, file_path, hunk_header) ==
    [line_type |-> line_type, content |-> content, old_line_no |-> old,
     new_line_no |-> new, file_path |-> file_path, hunk_header |-> hunk_header]

\* comments is a dict: its items in insertion order, one per key
DiffFile(path) == [path |-> path, lines |-> <<>>, comments |-> <<>>]

Comment(file, line_no, hunk, content, context) ==
    [file |-> file, line_no |-> line_no, hunk |-> hunk, content |-> content,
     context |-> context]

(***************************************************************************)
(* parse_diff: one iteration of `for line in lines`, as a function of the  *)
(* parser's locals.                                                        *)
(***************************************************************************)
ParserState(fs, cf, ch, o, n) ==
    [files |-> fs, current_file |-> cf, current_hunk |-> ch,
     old_line_no |-> o, new_line_no |-> n]

\* current_file.lines.append(diff_line)
AppendLine(cf, diff_line) ==
    <<[cf[1] EXCEPT !.lines = Append(@, diff_line)]>>

\* path = line[4:].strip(); a leading "b/" removed
PathOf(line) ==
    LET path == Strip(DropFirst(line, 4))
    IN  IF StartsWith(path, <<"b", "/">>) THEN DropFirst(path, 2) ELSE path

FileHeaderStep(st) ==
    [st EXCEPT !.files = IF st.current_file # <<>> THEN @ \o st.current_file ELSE @,
               !.current_file = <<>>]

FilePathStep(st, line) ==
    [st EXCEPT !.current_file = <<DiffFile(PathOf(line))>>]

\* mutant: the two starting numbers of the header are taken the wrong way round
HunkHeaderStep_Swapped(st, line) ==
    LET m  == HunkMatch(line)
        s1 == IF m.ok
              THEN [st EXCEPT !.old_line_no = m.new, !.new_line_no = m.old,
                              !.current_hunk = HunkText(line)]
              ELSE st
    IN  IF st.current_file # <<>>
        THEN [s1 EXCEPT !.current_file =
                 AppendLine(@, DiffLine("@", line, None, None, st.current_file[1].path, line))]
        ELSE s1

\* mutant: the whole header line is kept as the current hunk
HunkHeaderStep_FullText(st, line) ==
    LET m  == HunkMatch(line)
        s1 == IF m.ok
              THEN [st EXCEPT !.old_line_no = m.old, !.new_line_no = m.new,
                              !.current_hunk = line]
              ELSE st
    IN  IF st.current_file # <<>>
        THEN [s1 EXCEPT !.current_file =
                 AppendLine(@, DiffLine("@", line, None, None, st.current_file[1].path, line))]
        ELSE s1

\* mutant: a header that does not match the pattern restarts both counters
HunkHeaderStep_ResetOnBad(st, line) ==
    LET m  == HunkMatch(line)
        s1 == IF m.ok
              THEN [st EXCEPT !.old_line_no = m.old, !.new_line_no = m.new,
                              !.current_hunk = HunkText(line)]
              ELSE [st EXCEPT !.old_line_no = 0, !.new_line_no = 0]
    IN  IF st.current_file # <<>>
        THEN [s1 EXCEPT !.current_file =
                 AppendLine(@, DiffLine("@", line, None, None, st.current_file[1].path, line))]
        ELSE s1

HunkHeaderStep(st, line) ==
    LET m  == HunkMatch(line)
        s1 == IF m.ok
              THEN [st EXCEPT !.old_line_no = m.old, !.new_line_no = m.new,
                              !.current_hunk = HunkText(line)]
              ELSE st
    IN  IF st.current_file # <<>>
        THEN [s1 EXCEPT !.current_file =
                 AppendLine(@, DiffLine("@", line, None, None, st.current_file[1].path, line))]
        ELSE s1

\* mutant: an added line is given the old line number as well
ContentStep_AddedKeepsOld(st, line) ==
    LET path == st.current_file[1].path
    IN  IF StartsWith(line, <<"+">>)
        THEN [st EXCEPT !.current_file =
                     AppendLine(@, DiffLine("+", DropFirst(line, 1), st.old_line_no,
                                            st.new_line_no, path, st.current_hunk)),
                 !.new_line_no = @ + 1]
        ELSE IF StartsWith(line, <<"-">>)
        THEN [st EXCEPT !.current_file =
                     AppendLine(@, DiffLine("-", DropFirst(line, 1), st.old_line_no, None,
                                            path, st.current_hunk)),
                 !.old_line_no = @ + 1]
        ELSE IF StartsWith(line, <<" ">>)
        THEN [st EXCEPT !.current_file =
                     AppendLine(@, DiffLine(" ", DropFirst(line, 1), st.old_line_no,
                                            st.new_line_no, path, st.current_hunk)),
                 !.old_line_no = @ + 1,
                 !.new_line_no = @ + 1]
        ELSE st

\* mutant: a context line advances the old counter only
ContentStep_ContextOldOnly(st, line) ==
    LET path == st.current_file[1].path
    IN  IF StartsWith(line, <<"+">>)
        THEN [st EXCEPT !.current_file =
                     AppendLine(@, DiffLine("+", DropFirst(line, 1), None, st.new_line_no,
                                            path, st.current_hunk)),
                 !.new_line_no = @ + 1]
        ELSE IF StartsWith(line, <<"-">>)
        THEN [st EXCEPT !.current_file =
                     AppendLine(@, DiffLine("-", DropFirst(line, 1), st.old_line_no, None,
                                            path, st.current_hunk)),
                 !.old_line_no = @ + 1]
        ELSE IF StartsWith(line, <<" ">>)
        THEN [st EXCEPT !.current_file =
                     AppendLine(@, DiffLine(" ", DropFirst(line, 1), st.old_line_no,
                                            st.new_line_no, path, st.current_hunk)),
                 !.old_line_no = @ + 1]
        ELSE st

\* mutant: a line with any other leading character is taken as context
ContentStep_OtherIsContext(st, line) ==
    LET path == st.current_file[1].path
    IN  IF StartsWith(line, <<"+">>)
        THEN [st EXCEPT !.current_file =
                     AppendLine(@, DiffLine("+", DropFirst(line, 1), None, st.new_line_no,
                                            path, st.current_hunk)),
                 !.new_line_no = @ + 1]
        ELSE IF StartsWith(line, <<"-">>)
        THEN [st EXCEPT !.current_file =
                     AppendLine(@, DiffLine("-", DropFirst(line, 1), st.old_line_no, None,
                                            path, st.current_hunk)),
                 !.old_line_no = @ + 1]
        ELSE [st EXCEPT !.current_file =
                     AppendLine(@, DiffLine(" ", DropFirst(line, 1), st.old_line_no,
                                            st.new_line_no, path, st.current_hunk)),
                 !.old_line_no = @ + 1,
                 !.new_line_no = @ + 1]

ContentStep(st, line) ==
    LET path == st.current_file[1].path
    IN  IF StartsWith(line, <<"+">>)
        THEN [st EXCEPT !.current_file =
                     AppendLine(@, DiffLine("+", DropFirst(line, 1), None, st.new_line_no,
                                            path, st.current_hunk)),
                 !.new_line_no = @ + 1]
        ELSE IF StartsWith(line, <<"-">>)
        THEN [st EXCEPT !.current_file =
                     AppendLine(@, DiffLine("-", DropFirst(line, 1), st.old_line_no, None,
                                            path, st.current_hunk)),
                 !.old_line_no = @ + 1]
        ELSE IF StartsWith(line, <<" ">>)
        THEN [st EXCEPT !.current_file =
                     AppendLine(@, DiffLine(" ", DropFirst(line, 1), st.old_line_no,
                                            st.new_line_no, path, st.current_hunk)),
                 !.old_line_no = @ + 1,
                 !.new_line_no = @ + 1]
        ELSE st

\* mutant: an empty line inside a file is recorded as an empty context line
ParseStep_EmptyAsContext(st, line) ==
    IF StartsWith(line, <<"d", "i", "f", "f", " ", "-", "-", "g", "i", "t">>)
    THEN FileHeaderStep(st)
    ELSE IF StartsWith(line, <<"+", "+", "+">>)
    THEN FilePathStep(st, line)
    ELSE IF StartsWith(line, <<"@", "@">>)
    THEN HunkHeaderStep(st, line)
    ELSE IF st.current_file # <<>> /\ line # <<>>
    THEN ContentStep(st, line)
    ELSE IF st.current_file # <<>>
    THEN [st EXCEPT !.current_file =
                 AppendLine(@, DiffLine(" ", <<>>, st.old_line_no, st.new_line_no,
                                        st.current_file[1].path, st.current_hunk)),
             !.old_line_no = @ + 1,
             !.new_line_no = @ + 1]
    ELSE st

ParseStep(st, line) ==
    IF StartsWith(line, <<"d", "i", "f", "f", " ", "-", "-", "g", "i", "t">>)
    THEN FileHeaderStep(st)
    ELSE IF StartsWith(line, <<"+", "+", "+">>)
    THEN FilePathStep(st, line)
    ELSE IF StartsWith(line, <<"@", "@">>)
    THEN HunkHeaderStep(st, line)
    ELSE IF st.current_file # <<>> /\ line # <<>>
    THEN ContentStep(st, line)
    ELSE st

\* after the loop: if current_file: diff.files.append(current_file)
ParseFinish(st) ==
    IF st.current_file # <<>> THEN st.files \o st.current_file ELSE st.files

(***************************************************************************)
(* Input lines.                                                            *)
(***************************************************************************)
LDiffGit == <<"d", "i", "f", "f", " ", "-", "-", "g", "i", "t", " ", "a", "/", "x", " ", "b", "/", "x">>

LOld == <<"-", "-", "-", " ", "a", "/", "x">>

LNew == <<"+", "+", "+", " ", "b", "/", "x">>

LNewY == <<"+", "+", "+", " ", "b", "/", "y">>

LHunk == <<"@", "@", " ", "-", "1", ",", "2", " ", "+", "1", ",", "3", " ", "@", "@">>

LHunk2 == <<"@", "@", " ", "-", "1", "0", " ", "+", "1", "2", " ", "@", "@", " ", "f">>

LBadHunk == <<"@", "@", " ", "-", "1", " ", "@", "@">>

LCtx == <<" ", "a">>

LAdd == <<"+", "a">>

LDel == <<"-", "a">>

LEmpty == <<>>

LOther == <<"\\", " ", "n">>

LLine1 == <<" ", "l", "i", "n", "e", "1">>

LLine2 == <<"-", "l", "i", "n", "e", "2">>

LLine2b == <<"+", "l", "i", "n", "e", "2", "b">>

LLine3 == <<"+", "l", "i", "n", "e", "3">>

\* an added line whose text is "++ b/y"
LAddPlusPlus == LNewY

Alphabet == {LDiffGit, LNew, LHunk, LBadHunk, LCtx, LAdd, LDel, LEmpty, LOther}

\* "diff --git a/x b/x\n--- a/x\n+++ b/x\n@@ -1,2 +1,3 @@\n line1\n-line2\n+line2b\n+line3\n"
Scenario == <<LDiffGit, LOld, LNew, LHunk, LLine1, LLine2, LLine2b, LLine3, LEmpty>>

\* the scenario with its last added line reading "++ b/y"
ScenarioPlusPlus == <<LDiffGit, LOld, LNew, LHunk, LLine1, LLine2, LLine2b, LAddPlusPlus, LEmpty>>

\* two files, the second with two hunks
TwoFiles == <<LDiffGit, LOld, LNew, LHunk, LCtx, LAdd, LCtx,
              LDiffGit, LOld, LNewY, LHunk, LDel, LCtx, LHunk2, LCtx, LAdd, LAdd, LCtx, LEmpty>>

ExtraInputs == {Scenario, ScenarioPlusPlus, TwoFiles}

\* every text of at most MaxLines lines over Alphabet (split never returns an empty list)
ParseInputs == UNION {[1..n -> Alphabet] : n \in 1..MaxLines} \cup ExtraInputs

(***************************************************************************)
(* __init__.py main() and parser.py parse_diff.                            *)
(***************************************************************************)
\* not diff_text.strip(): the text holds white space only
Blank(ls) == \A k \in 1..Len(ls) : Strip(ls[k]) = <<>>

Ran(op, result) == [op |-> op, result |-> result]

InitWith(inputs) ==
    /\ pc = "main"
    /\ lines \in inputs
    /\ i = 0
    /\ files = <<>>
    /\ current_file = <<>>
    /\ current_hunk = <<>>
    /\ old_line_no = 0
    /\ new_line_no = 0
    /\ focused = None
    /\ editing = FALSE
    /\ edit_line_idx = None
    /\ notice = ""
    /\ feedback = <<>>
    /\ last = Ran("", "")

InitParse == InitWith(ParseInputs)

\* main: the text is obtained; an all-blank text ends the program
MainStart ==
    /\ pc = "main"
    /\ IF Blank(lines)
       THEN pc' = "done" /\ notice' = "No changes detected in git diff HEAD"
       ELSE pc' = "parsing" /\ notice' = notice
    /\ UNCHANGED <<parserVars, sessionVars, last>>

\* parse_diff: one iteration of the for loop
ForLine ==
    /\ pc = "parsing"
    /\ i < Len(lines)
    /\ LET st == ParseStep(ParserState(files, current_file, current_hunk,
                                       old_line_no, new_line_no), lines[i + 1])
       IN  /\ files' = st.files
           /\ current_file' = st.current_file
           /\ current_hunk' = st.current_hunk
           /\ old_line_no' = st.old_line_no
           /\ new_line_no' = st.new_line_no
    /\ i' = i + 1
    /\ UNCHANGED <<pc, lines, notice, sessionVars, last>>

\* parse_diff: the loop is over; the file in progress is appended and diff returned
ParseReturn ==
    /\ pc = "parsing"
    /\ i = Len(lines)
    /\ files' = ParseFinish(ParserState(files, current_file, current_hunk,
                                        old_line_no, new_line_no))
    /\ pc' = "parsed"
    /\ UNCHANGED <<lines, i, current_file, current_hunk, old_line_no, new_line_no,
                   notice, sessionVars, last>>

NextParse == MainStart \/ ForLine \/ ParseReturn

SpecParse == InitParse /\ [][NextParse]_vars

(***************************************************************************)
(* app.py: the flattened view of the document (DiffReviewApp.__init__).    *)
(***************************************************************************)
\* all_lines: the lines of every file, in file order
RECURSIVE AllLines(_)
AllLines(fs) ==
    IF fs = <<>> THEN <<>> ELSE fs[1].lines \o AllLines(Tail(fs))

\* line_to_file[idx]: the zero-based index of the file whose lines cover idx
RECURSIVE LineToFile(_, _)
LineToFile(fs, idx) ==
    IF idx < Len(fs[1].lines) THEN 0
    ELSE 1 + LineToFile(Tail(fs), idx - Len(fs[1].lines))

\* for i, line in enumerate(file.lines): if line == target: file_line_idx = i; break
\* (dataclass equality: all six fields; 0 when nothing is equal)
FileLineIdx(file, target) ==
    LET eq == {k \in 1..Len(file.lines) : file.lines[k] = target}
    IN  IF eq = {} THEN 0
        ELSE (CHOOSE k \in eq : \A m \in eq : k <= m) - 1

\* mutant: hunk headers can take the focus too
Focusable_All(fs) == 0..(Len(AllLines(fs)) - 1)

\* the zero-based indices of the widgets that can take the focus
Focusable(fs) ==
    {k \in 0..(Len(AllLines(fs)) - 1) : AllLines(fs)[k + 1].line_type # "@"}

\* on_mount / rebuild_view: the first widget that is not a hunk header gets the focus
FirstCodeLine(fs) ==
    IF Focusable(fs) = {} THEN None
    ELSE CHOOSE k \in Focusable(fs) : \A m \in Focusable(fs) : k <= m

(***************************************************************************)
(* file.comments, a dict keyed by position-within-file: a sequence of      *)
(* [key, value] items in insertion order.                                  *)
(***************************************************************************)
DictKeys(d) == {d[k].key : k \in 1..Len(d)}

\* key in d
DictHas(d, key) == key \in DictKeys(d)

\* d[key]
DictGet(d, key) == d[CHOOSE k \in 1..Len(d) : d[k].key = key].value

\* mutant: the item is always added at the end
DictSet_Append(d, key, value) == Append(d, [key |-> key, value |-> value])

\* d[key] = value: an existing key keeps its place, a new key goes last
DictSet(d, key, value) ==
    IF DictHas(d, key)
    THEN [k \in 1..Len(d) |-> IF d[k].key = key THEN [key |-> key, value |-> value] ELSE d[k]]
    ELSE Append(d, [key |-> key, value |-> value])

\* mutant: every item up to the key goes as well
DictDel_UpTo(d, key) == SelectSeq(d, LAMBDA item : item.key > key)

\* del d[key]
DictDel(d, key) == SelectSeq(d, LAMBDA item : item.key # key)

(***************************************************************************)
(* output.py generate_feedback                                             *)
(***************************************************************************)
FeedbackEntry(comment) ==
    [file |-> comment.file, line |-> comment.line_no, hunk |-> comment.hunk,
     content |-> comment.content, context |-> comment.context]

\* mutant: the last comment of a file is left out
FileEntries_AllButLast(file) ==
    [k \in 1..(Len(file.comments) - 1) |-> FeedbackEntry(file.comments[k].value)]

\* for line_idx, comment in file.comments.items(): comments.append({...})
FileEntries(file) ==
    [k \in 1..Len(file.comments) |-> FeedbackEntry(file.comments[k].value)]

\* for file in diff.files: ...
RECURSIVE FeedbackComments(_)
FeedbackComments(fs) ==
    IF fs = <<>> THEN <<>> ELSE FileEntries(fs[1]) \o FeedbackComments(Tail(fs))

\* the record written to feedback.json (the time stamp, read off the clock, is left out)
generate_feedback(fs) ==
    [diff_command |-> "git diff HEAD", comments |-> FeedbackComments(fs)]

(***************************************************************************)
(* app.py: DiffReviewApp                                                   *)
(***************************************************************************)
\* what the reviewer can type into the Input widget
Values == {<<>>, <<" ", " ">>, <<"t">>, <<" ", "u", " ">>}

SessionAlphabet == {LDiffGit, LNew, LHunk, LCtx, LAdd, LDel, LEmpty}

\* one file whose two hunks carry the same header and the same added line
DupHunks == <<LNew, LHunk, LAdd, LHunk, LAdd, LEmpty>>

\* two files; the first has a line before any hunk
TwoShort == <<LNew, LAdd, LDiffGit, LNewY, LHunk, LCtx, LDel>>

SessionExtras == {Scenario, DupHunks, TwoShort}

SessionInputs == UNION {[1..n -> SessionAlphabet] : n \in 1..MaxSessionLines} \cup SessionExtras

Init == InitWith(SessionInputs)

\* line_no = line.new_line_no or line.old_line_no (None and 0 are both false)
CommentLineNo(line) ==
    IF line.new_line_no # None /\ line.new_line_no # 0
    THEN line.new_line_no
    ELSE line.old_line_no

\* mutant: hunk and context are filled from each other's field
NewComment_Swapped(file, line, comment_text) ==
    Comment(file.path, CommentLineNo(line), line.content, comment_text, line.hunk_header)

\* Comment(file=file.path, line_no=..., hunk=line.hunk_header, content=comment_text,
\*         context=line.content)
NewComment(file, line, comment_text) ==
    Comment(file.path, CommentLineNo(line), line.hunk_header, comment_text, line.content)

\* the file of the widget at idx, and the position the linear scan gives its line
WidgetFile(fs, idx) == fs[LineToFile(fs, idx) + 1]

WidgetPos(fs, idx) == FileLineIdx(WidgetFile(fs, idx), AllLines(fs)[idx + 1])

\* main: "No files to review", or DiffReviewApp(diff).run() up to the end of on_mount.
\* The locals of parse_diff are gone.
StartApp ==
    /\ pc = "parsed"
    /\ IF files = <<>>
       THEN pc' = "done" /\ notice' = "No files to review" /\ focused' = focused
       ELSE pc' = "review" /\ notice' = notice /\ focused' = FirstCodeLine(files)
    /\ lines' = <<>>
    /\ i' = 0
    /\ current_file' = <<>>
    /\ current_hunk' = <<>>
    /\ old_line_no' = 0
    /\ new_line_no' = 0
    /\ UNCHANGED <<files, editing, edit_line_idx, feedback, last>>

\* a handler that returns at once
Ignored(op) ==
    /\ last' = Ran(op, "ignored")
    /\ UNCHANGED <<pc, parserVars, sessionVars, notice>>

\* a handler that only notifies
Notify(op, message) ==
    /\ notice' = message
    /\ last' = Ran(op, "warned")
    /\ UNCHANGED <<pc, parserVars, sessionVars>>

\* the comment the handlers find for the widget at idx (<<>> when there is none):
\* file_idx = line_to_file[widget.index], then the scan for file_line_idx
ExistingComment(fs, idx) ==
    IF DictHas(WidgetFile(fs, idx).comments, WidgetPos(fs, idx))
    THEN <<DictGet(WidgetFile(fs, idx).comments, WidgetPos(fs, idx))>>
    ELSE <<>>

\* key c
action_create_comment ==
    /\ pc = "review"
    /\ IF editing
       THEN Ignored("create")
       ELSE IF focused = None
       THEN Notify("create", "Please select a diff line first")
       ELSE /\ edit_line_idx' = focused
            /\ editing' = TRUE
            /\ focused' = None
            /\ last' = Ran("create", "editing")
            /\ UNCHANGED <<pc, parserVars, notice, feedback>>

\* key e
action_edit_comment ==
    /\ pc = "review"
    /\ IF editing
       THEN Ignored("edit")
       ELSE IF focused = None
       THEN Notify("edit", "Please select a diff line first")
       ELSE IF ExistingComment(files, focused) = <<>>
       THEN Notify("edit", "No comment to edit on this line")
       ELSE /\ edit_line_idx' = focused
            /\ editing' = TRUE
            /\ focused' = None
            /\ last' = Ran("edit", "editing")
            /\ UNCHANGED <<pc, parserVars, notice, feedback>>

\* key d
action_delete_comment ==
    /\ pc = "review"
    /\ IF editing
       THEN Ignored("delete")
       ELSE IF focused = None
       THEN Notify("delete", "Please select a diff line first")
       ELSE LET file_idx == LineToFile(files, focused)
                file_line_idx == WidgetPos(files, focused)
            IN  IF DictHas(files[file_idx + 1].comments, file_line_idx)
                THEN /\ files' = [files EXCEPT ![file_idx + 1].comments =
                                                   DictDel(@, file_line_idx)]
                     /\ notice' = "Comment deleted"
                     /\ focused' = FirstCodeLine(files)
                     /\ last' = Ran("delete", "deleted")
                     /\ UNCHANGED <<pc, lines, i, current_file, current_hunk, old_line_no,
                                    new_line_no, editing, edit_line_idx, feedback>>
                ELSE Notify("delete", "No comment to delete on this line")

\* where the focus can be once the Input is removed and widgets.first().focus() has run:
\* the first widget takes it when it is a code line; a hunk header cannot, and the
\* toolkit then leaves the focus on a widget of its choice
FocusAfterCancel(fs) ==
    IF 0 \in Focusable(fs) THEN {0} ELSE {None} \cup Focusable(fs)

\* mutant: the cancel leaves edit_line_idx set
CancelEdit_KeepsIdx(op) ==
    /\ editing' = FALSE
    /\ focused' \in FocusAfterCancel(files)
    /\ last' = Ran(op, "cancelled")
    /\ UNCHANGED <<pc, parserVars, edit_line_idx, notice, feedback>>

\* action_cancel_edit while editing, called from op
CancelEdit(op) ==
    /\ editing' = FALSE
    /\ edit_line_idx' = None
    /\ focused' \in FocusAfterCancel(files)
    /\ last' = Ran(op, "cancelled")
    /\ UNCHANGED <<pc, parserVars, notice, feedback>>

\* key escape
action_cancel_edit ==
    /\ pc = "review"
    /\ IF editing THEN CancelEdit("cancel") ELSE Ignored("cancel")

\* mutant: the document is emptied once the feedback is written
action_quit_app_ClearsDocument ==
    /\ pc = "review"
    /\ feedback' = <<generate_feedback(files)>>
    /\ notice' = "Feedback saved to feedback.json"
    /\ pc' = "done"
    /\ files' = <<>>
    /\ last' = Ran("quit", "saved")
    /\ UNCHANGED <<lines, i, current_file, current_hunk, old_line_no, new_line_no,
                   focused, editing, edit_line_idx>>

\* key q
action_quit_app ==
    /\ pc = "review"
    /\ feedback' = <<generate_feedback(files)>>
    /\ notice' = "Feedback saved to feedback.json"
    /\ pc' = "done"
    /\ last' = Ran("quit", "saved")
    /\ UNCHANGED <<parserVars, focused, editing, edit_line_idx>>

\* screen.focus_next(): the next widget of the focus chain, which runs from the
\* scroll container (not a diff line: None) through the code lines and round
FocusNext(fs, cur) ==
    LET after == {k \in Focusable(fs) : k > cur}
    IN  IF after = {} THEN None ELSE CHOOSE k \in after : \A m \in after : k <= m

\* screen.focus_previous()
FocusPrevious(fs, cur) ==
    LET before == {k \in Focusable(fs) : cur = None \/ k < cur}
    IN  IF before = {} THEN None ELSE CHOOSE k \in before : \A m \in before : k >= m

\* keys down, tab
action_focus_next ==
    /\ pc = "review"
    /\ IF editing
       THEN Ignored("focus_next")
       ELSE /\ focused' = FocusNext(files, focused)
            /\ last' = Ran("focus_next", "moved")
            /\ UNCHANGED <<pc, parserVars, editing, edit_line_idx, notice, feedback>>

\* keys up, shift+tab
action_focus_previous ==
    /\ pc = "review"
    /\ IF editing
       THEN Ignored("focus_previous")
       ELSE /\ focused' = FocusPrevious(files, focused)
            /\ last' = Ran("focus_previous", "moved")
            /\ UNCHANGED <<pc, parserVars, editing, edit_line_idx, notice, feedback>>

\* mutant: a value that is empty once stripped is stored like any other
SubmitValue_NoEmptyCheck(value) ==
    IF ~editing \/ edit_line_idx = None
    THEN Ignored("submit")
    ELSE LET comment_text == Strip(value)
             file_idx == LineToFile(files, edit_line_idx)
             file == files[file_idx + 1]
             line == AllLines(files)[edit_line_idx + 1]
             file_line_idx == FileLineIdx(file, line)
         IN  /\ files' = [files EXCEPT ![file_idx + 1].comments =
                             DictSet(@, file_line_idx,
                                     NewComment(file, line, comment_text))]
             /\ editing' = FALSE
             /\ edit_line_idx' = None
             /\ focused' = FirstCodeLine(files)
             /\ notice' = "Comment saved"
             /\ last' = Ran("submit", IF DictHas(file.comments, file_line_idx)
                                          THEN "replaced" ELSE "created")
             /\ UNCHANGED <<pc, lines, i, current_file, current_hunk,
                            old_line_no, new_line_no, feedback>>

\* on_input_submitted with event.value = value
SubmitValue(value) ==
    IF ~editing \/ edit_line_idx = None
    THEN Ignored("submit")
    ELSE LET comment_text == Strip(value)
         IN  IF comment_text = <<>>
             THEN CancelEdit("submit")
             ELSE LET file_idx == LineToFile(files, edit_line_idx)
                      file == files[file_idx + 1]
                      line == AllLines(files)[edit_line_idx + 1]
                      file_line_idx == FileLineIdx(file, line)
                  IN  /\ files' = [files EXCEPT ![file_idx + 1].comments =
                                      DictSet(@, file_line_idx,
                                              NewComment(file, line, comment_text))]
                      /\ editing' = FALSE
                      /\ edit_line_idx' = None
                      /\ focused' = FirstCodeLine(files)
                      /\ notice' = "Comment saved"
                      /\ last' = Ran("submit", IF DictHas(file.comments, file_line_idx)
                                                   THEN "replaced" ELSE "created")
                      /\ UNCHANGED <<pc, lines, i, current_file, current_hunk,
                                     old_line_no, new_line_no, feedback>>

on_input_submitted ==
    /\ pc = "review"
    /\ \E value \in Values : SubmitValue(value)

Next ==
    \/ MainStart
    \/ ForLine
    \/ ParseReturn
    \/ StartApp
    \/ action_create_comment
    \/ action_edit_comment
    \/ action_delete_comment
    \/ action_cancel_edit
    \/ action_quit_app
    \/ action_focus_next
    \/ action_focus_previous
    \/ on_input_submitted

Spec == Init /\ [][Next]_vars

(***************************************************************************)
(* Properties of the parser, checked under SpecParse.                      *)
(***************************************************************************)
Parsed == pc = "parsed"

IsHeader(l) == l.line_type = "@"

IsContext(l) == l.line_type = " "

\* the number of records of file f at positions a..b whose type is in types
CountTypes(f, a, b, types) ==
    Cardinality({k \in a..b : f.lines[k].line_type \in types})

\* A well-formed text: sections of "diff --git", "--- ", "+++ b/<path>", then hunks
\* (a matching header, then lines that start with "+", "-" or " "); the text may end
\* in empty lines. The result is [ok, paths]: paths are those of the "+++ " marker
\* lines, in order.
RECURSIVE ScanText(_, _, _)
ScanText(ls, mode, paths) ==
    IF ls = <<>> THEN [ok |-> mode \in {"top", "body"}, paths |-> paths]
    ELSE LET l == Head(ls)
             rest == Tail(ls)
             bad == [ok |-> FALSE, paths |-> paths]
         IN  IF mode \in {"top", "body"} /\ l = <<>>
             THEN [ok |-> \A k \in 1..Len(rest) : rest[k] = <<>>, paths |-> paths]
             ELSE IF mode \in {"top", "body"} /\ StartsWith(l, <<"d", "i", "f", "f", " ", "-", "-", "g", "i", "t", " ">>)
             THEN ScanText(rest, "diff", paths)
             ELSE IF mode = "diff"
             THEN IF StartsWith(l, <<"-", "-", "-", " ">>) THEN ScanText(rest, "old", paths) ELSE bad
             ELSE IF mode = "old"
             THEN IF StartsWith(l, <<"+", "+", "+", " ", "b", "/">>) /\ Len(l) > 6
                  THEN ScanText(rest, "new", Append(paths, DropFirst(l, 6)))
                  ELSE bad
             ELSE IF mode \in {"new", "body"} /\ StartsWith(l, <<"@", "@">>)
             THEN IF HunkMatch(l).ok THEN ScanText(rest, "body", paths) ELSE bad
             ELSE IF mode = "body" /\ l[1] \in {"+", "-", " "}
             THEN ScanText(rest, "body", paths)
             ELSE bad

WellFormed(ls) == ScanText(ls, "top", <<>>).ok

MarkerPaths(ls) == ScanText(ls, "top", <<>>).paths

\* C4 (as claimed): for well-formed text the document has exactly one file entry per
\* "+++ " marker line, in the order of the markers: no opened entry is lost and none
\* is created by a content line.
C4_OneFilePerMarker ==
    Parsed /\ WellFormed(lines) =>
        [k \in 1..Len(files) |-> files[k].path] = MarkerPaths(lines)

LineNumbersOk(l) ==
    /\ l.line_type \in {"+", "-", " ", "@"}
    /\ l.line_type = "+" => l.new_line_no >= 0 /\ l.old_line_no = None
    /\ l.line_type = "-" => l.old_line_no >= 0 /\ l.new_line_no = None
    /\ l.line_type = " " => l.old_line_no >= 0 /\ l.new_line_no >= 0
    /\ l.line_type = "@" => l.old_line_no = None /\ l.new_line_no = None

\* C5: every line record of every file, finished or in progress, satisfies the
\* kind/number invariant: Added has the new number only, Removed the old number
\* only, Context both, HunkHeader neither.
C5_KindNumberInvariant ==
    \A f \in 1..Len(files \o current_file) :
        \A k \in 1..Len((files \o current_file)[f].lines) :
            LineNumbersOk((files \o current_file)[f].lines[k])

\* C5 witness: a parsed document with a file that holds all four kinds of line
C5_Witness ==
    /\ Parsed
    /\ \E f \in 1..Len(files) :
           {files[f].lines[k].line_type : k \in 1..Len(files[f].lines)} = {"+", "-", " ", "@"}

\* records a < b of file f lie in one hunk run: a hunk header is at or before a, and
\* no header that resets the counters lies after a up to b
SameRun(f, a, b) ==
    /\ a < b
    /\ \E h \in 1..a : IsHeader(f.lines[h])
    /\ \A h \in (a + 1)..b : ~(IsHeader(f.lines[h]) /\ HunkMatch(f.lines[h].content).ok)

Delta(l) == l.new_line_no - l.old_line_no

ContextPairs(f) ==
    {p \in (1..Len(f.lines)) \X (1..Len(f.lines)) :
        /\ IsContext(f.lines[p[1]])
        /\ IsContext(f.lines[p[2]])
        /\ SameRun(f, p[1], p[2])}

\* C6 (as claimed): within one hunk run every Context line has the same value of
\* new_line_number - old_line_number.
C6_ContextDeltaConstant ==
    Parsed =>
        \A f \in 1..Len(files) : \A p \in ContextPairs(files[f]) :
            Delta(files[f].lines[p[2]]) = Delta(files[f].lines[p[1]])

\* C6 (amended): within one hunk run, from one Context line to a later one the value
\* of new_line_number - old_line_number changes by the number of Added lines less the
\* number of Removed lines between them; it is the same when neither lies between.
C6_ContextDeltaTracksChanges ==
    Parsed =>
        \A f \in 1..Len(files) : \A p \in ContextPairs(files[f]) :
            Delta(files[f].lines[p[2]]) =
                Delta(files[f].lines[p[1]])
                    + CountTypes(files[f], p[1] + 1, p[2] - 1, {"+"})
                    - CountTypes(files[f], p[1] + 1, p[2] - 1, {"-"})

\* C6 witness: two Context lines of one hunk run with an Added line between them
C6_Witness ==
    /\ Parsed
    /\ \E f \in 1..Len(files) : \E p \in ContextPairs(files[f]) :
           /\ CountTypes(files[f], p[1] + 1, p[2] - 1, {"+"}) > 0
           /\ Delta(files[f].lines[p[2]]) # Delta(files[f].lines[p[1]])

\* the records of the hunk that header record h of file f opens
HunkBody(f, h) ==
    {k \in (h + 1)..Len(f.lines) : \A j \in (h + 1)..k : ~IsHeader(f.lines[j])}

HunkNumbered(f, h) ==
    LET m == HunkMatch(f.lines[h].content)
    IN  \A k \in HunkBody(f, h) :
            /\ f.lines[k].line_type \in {"-", " "} =>
                   f.lines[k].old_line_no = m.old + CountTypes(f, h + 1, k - 1, {"-", " "})
            /\ f.lines[k].line_type \in {"+", " "} =>
                   f.lines[k].new_line_no = m.new + CountTypes(f, h + 1, k - 1, {"+", " "})

\* the record's content is an input line less its one marker character
MarkerStripped(l) ==
    IsHeader(l) \/ \E k \in 1..Len(lines) : lines[k] = <<l.line_type>> \o l.content

ScenarioHunk == <<"-", "1", ",", "2", " ", "+", "1", ",", "3">>

ScenarioDocument ==
    <<[path |-> <<"x">>, comments |-> <<>>,
       lines |-> <<DiffLine("@", LHunk, None, None, <<"x">>, LHunk),
                   DiffLine(" ", <<"l", "i", "n", "e", "1">>, 1, 1, <<"x">>, ScenarioHunk),
                   DiffLine("-", <<"l", "i", "n", "e", "2">>, 2, None, <<"x">>, ScenarioHunk),
                   DiffLine("+", <<"l", "i", "n", "e", "2", "b">>, None, 2, <<"x">>, ScenarioHunk),
                   DiffLine("+", <<"l", "i", "n", "e", "3">>, None, 3, <<"x">>, ScenarioHunk)>>]>>

\* C7: in a hunk whose header matches with starting values (a, c), a Removed or
\* Context line has old number a + the number of Removed and Context lines before it
\* in the hunk, an Added or Context line has new number c + the number of Added and
\* Context lines before it, and the content is the line less its marker; the
\* scenario text yields HunkHeader, Context(line1, 1, 1), Removed(line2, 2),
\* Added(line2b, 2), Added(line3, 3) in one file of path x.
C7_HunkNumbering ==
    Parsed =>
        /\ \A f \in 1..Len(files) : \A h \in 1..Len(files[f].lines) :
               /\ MarkerStripped(files[f].lines[h])
               /\ IsHeader(files[f].lines[h]) /\ HunkMatch(files[f].lines[h].content).ok
                      => HunkNumbered(files[f], h)
        /\ lines = Scenario =>
               [f \in 1..Len(files) |-> [files[f] EXCEPT !.lines =
                   [k \in 1..Len(@) |-> [@[k] EXCEPT !.hunk_header = <<>>]]]]
               = [f \in 1..Len(ScenarioDocument) |-> [ScenarioDocument[f] EXCEPT !.lines =
                   [k \in 1..Len(@) |-> [@[k] EXCEPT !.hunk_header = <<>>]]]]

\* C7 witness: a parsed hunk that starts at (10, 12) and holds a Context line after
\* Added lines
C7_Witness ==
    /\ Parsed
    /\ \E f \in 1..Len(files) : \E h \in 1..Len(files[f].lines) :
           /\ IsHeader(files[f].lines[h])
           /\ HunkMatch(files[f].lines[h].content).old = 10
           /\ \E k \in HunkBody(files[f], h) :
                  /\ IsContext(files[f].lines[k])
                  /\ files[f].lines[k].old_line_no = 11
                  /\ files[f].lines[k].new_line_no = 15

\* one turn of the loop of parse_diff, and the input line it handles
LoopStep == pc = "parsing" /\ i < Len(lines) /\ i' = i + 1

LoopLine == lines[i + 1]

\* a file separator, a file path line or a hunk header line
IsMarkerLine(line) ==
    \/ StartsWith(line, <<"d", "i", "f", "f", " ", "-", "-", "g", "i", "t">>)
    \/ StartsWith(line, <<"+", "+", "+">>)
    \/ StartsWith(line, <<"@", "@">>)

\* the records of the file in progress
Records(cf) == IF cf = <<>> THEN <<>> ELSE cf[1].lines

\* the loop step appended one Context record that carries both counters, and both
\* counters went up by one
ContextAppended ==
    /\ current_file' # <<>>
    /\ Len(Records(current_file')) = Len(Records(current_file)) + 1
    /\ SubSeq(Records(current_file'), 1, Len(Records(current_file))) = Records(current_file)
    /\ LET r == Records(current_file')[Len(Records(current_file'))]
       IN  /\ r.line_type = " "
           /\ r.old_line_no = old_line_no
           /\ r.new_line_no = new_line_no
    /\ old_line_no' = old_line_no + 1
    /\ new_line_no' = new_line_no + 1

\* C14 (as claimed): while a current file exists, every non-empty line that is not a
\* marker line and whose first character is neither + nor - produces a Context record
\* carrying both counters and increments both counters.
C14_OtherLeadIsContext ==
    [][LoopStep /\ current_file # <<>> /\ LoopLine # <<>> /\ ~IsMarkerLine(LoopLine)
         /\ LoopLine[1] \notin {"+", "-"}
       => ContextAppended]_vars

\* C14 (amended): while a current file exists, a non-marker line whose first character
\* is a space produces a Context record carrying both counters and increments both;
\* a non-empty non-marker line whose first character is none of +, - and space
\* produces no record and leaves the file in progress and both counters as they were.
C14_SpaceLeadIsContext ==
    [][LoopStep /\ current_file # <<>> /\ LoopLine # <<>> /\ ~IsMarkerLine(LoopLine)
         /\ LoopLine[1] \notin {"+", "-"}
       => IF LoopLine[1] = " "
          THEN ContextAppended
          ELSE /\ current_file' = current_file
               /\ files' = files
               /\ old_line_no' = old_line_no
               /\ new_line_no' = new_line_no]_vars

\* C14 witness: inside a file, a line led by a space has been recorded as Context and
\* the line after it, led by a backslash, has been passed over
C14_Witness ==
    /\ pc = "parsing"
    /\ i >= 3
    /\ lines[i] = LOther
    /\ lines[i - 1] = LCtx
    /\ current_file # <<>>
    /\ Records(current_file) # <<>>
    /\ IsContext(Records(current_file)[Len(Records(current_file))])

\* the greatest member of a non-empty set of positions
Latest(S) == CHOOSE k \in S : \A m \in S : m <= k

\* the input lines up to the n-th that begin a hunk header, and those of them that
\* match the hunk pattern
HeaderLinesUpTo(n) == {k \in 1..n : StartsWith(lines[k], <<"@", "@">>)}

MatchedHeadersUpTo(n) == {k \in HeaderLinesUpTo(n) : HunkMatch(lines[k]).ok}

\* the loop step appended one Added, Removed or Context record to the file in progress
ContentAppended ==
    /\ LoopStep
    /\ current_file # <<>>
    /\ current_file' # <<>>
    /\ Len(Records(current_file')) = Len(Records(current_file)) + 1
    /\ ~IsHeader(Records(current_file')[Len(Records(current_file'))])

NewRecord == Records(current_file')[Len(Records(current_file'))]

\* C15 (as claimed): every Added, Removed and Context record's hunk_header equals the
\* full text of the most recent hunk header line seen before it, and is empty for a
\* line that precedes the first hunk.
C15_HunkHeaderIsFullLine ==
    [][ContentAppended
       => NewRecord.hunk_header =
              IF HeaderLinesUpTo(i) = {} THEN <<>>
              ELSE lines[Latest(HeaderLinesUpTo(i))]]_vars

\* C15 (amended): every Added, Removed and Context record's hunk_header equals the
\* text between the two @@ markers, stripped, of the most recent hunk header line
\* before it that matches the hunk pattern, and is empty for a line that precedes the
\* first such header.
C15_HunkHeaderIsRangeText ==
    [][ContentAppended
       => NewRecord.hunk_header =
              IF MatchedHeadersUpTo(i) = {} THEN <<>>
              ELSE HunkText(lines[Latest(MatchedHeadersUpTo(i))])]_vars

\* C15 witness: an Added line that follows a matching header and then a header that
\* does not match has been recorded with the range text of the matching one
C15_Witness ==
    /\ pc = "parsing"
    /\ i = 4
    /\ lines[2] = LHunk
    /\ lines[3] = LBadHunk
    /\ lines[4] = LAdd
    /\ current_file # <<>>
    /\ Len(Records(current_file)) = 3
    /\ Records(current_file)[3].line_type = "+"
    /\ Records(current_file)[3].hunk_header = <<"-", "1", ",", "2", " ", "+", "1", ",", "3">>

\* C16: a line that begins with @@ and does not match the hunk pattern never aborts
\* parsing: the loop goes on to the next line, both counters and the current hunk keep
\* their prior values, no file is closed, and the only record added is the HunkHeader
\* record of that line when a current file exists.
C16_BadHeaderKeepsCounters ==
    [][LoopStep /\ StartsWith(LoopLine, <<"@", "@">>) /\ ~HunkMatch(LoopLine).ok
       => /\ pc' = "parsing"
          /\ old_line_no' = old_line_no
          /\ new_line_no' = new_line_no
          /\ current_hunk' = current_hunk
          /\ files' = files
          /\ IF current_file = <<>>
             THEN current_file' = <<>>
             ELSE /\ current_file' # <<>>
                  /\ Len(Records(current_file')) = Len(Records(current_file)) + 1
                  /\ SubSeq(Records(current_file'), 1, Len(Records(current_file)))
                         = Records(current_file)
                  /\ IsHeader(NewRecord)
                  /\ NewRecord.content = LoopLine]_vars

\* C16 witness: the document is parsed, and an Added line that follows a header that
\* does not match carries the number after the one of the Added line before that header
C16_Witness ==
    /\ Parsed
    /\ \E f \in 1..Len(files) : \E k \in 2..(Len(files[f].lines) - 1) :
           /\ IsHeader(files[f].lines[k])
           /\ ~HunkMatch(files[f].lines[k].content).ok
           /\ files[f].lines[k - 1].line_type = "+"
           /\ files[f].lines[k + 1].line_type = "+"
           /\ files[f].lines[k + 1].new_line_no = files[f].lines[k - 1].new_line_no + 1

\* C17: an empty input line is skipped: the loop step that handles it appends no
\* record and closes no file, and leaves both counters, the current file and the
\* current hunk header as they were.
C17_EmptyLineSkipped ==
    [][LoopStep /\ LoopLine = <<>>
       => /\ files' = files
          /\ current_file' = current_file
          /\ current_hunk' = current_hunk
          /\ old_line_no' = old_line_no
          /\ new_line_no' = new_line_no
          /\ pc' = "parsing"]_vars

\* C17 witness: an empty line has been passed over inside a hunk of a file that
\* already holds a record, with more input to come
C17_Witness ==
    /\ pc = "parsing"
    /\ i >= 1
    /\ i < Len(lines)
    /\ lines[i] = <<>>
    /\ current_file # <<>>
    /\ Records(current_file) # <<>>
    /\ current_hunk # <<>>
    /\ new_line_no > 0

(***************************************************************************)
(* Properties of the review session, checked under Spec.                   *)
(***************************************************************************)
\* the items of dict d in ascending key order
SortedItems(d) ==
    [k \in 1..Len(d) |->
        d[CHOOSE j \in 1..Len(d) :
              Cardinality({m \in 1..Len(d) : d[m].key < d[j].key}) = k - 1]]

\* the entries of every comment: files in document order, positions ascending
RECURSIVE PositionOrder(_)
PositionOrder(fs) ==
    IF fs = <<>> THEN <<>>
    ELSE [k \in 1..Len(fs[1].comments) |->
             FeedbackEntry(SortedItems(fs[1].comments)[k].value)]
         \o PositionOrder(Tail(fs))

\* C1 (as claimed): the feedback lists the comments with files in document order
\* and, within a file, in ascending position, whichever was created first.
C1_FeedbackInPositionOrder ==
    feedback # <<>> => feedback[1].comments = PositionOrder(files)

\* the position within its file of the line at flat index idx, from the cumulative
\* line counts
RECURSIVE PosInFile(_, _)
PosInFile(fs, idx) ==
    IF idx < Len(fs[1].lines) THEN idx
    ELSE PosInFile(Tail(fs), idx - Len(fs[1].lines))

\* the comment stored under position q of file g (both zero-based), <<>> when none
CommentAt(fs, g, q) ==
    IF DictHas(fs[g + 1].comments, q) THEN <<DictGet(fs[g + 1].comments, q)>> ELSE <<>>

Positions(fs) ==
    {gq \in (0..(Len(fs) - 1)) \X (0..(Len(AllLines(fs)) - 1)) :
        gq[2] < Len(fs[gq[1] + 1].lines)}

LinesOf(fs) == [g \in 1..Len(fs) |-> [path |-> fs[g].path, lines |-> fs[g].lines]]

\* this step is on_input_submitted taking value, with text left after the trim
AcceptedSubmit(value) ==
    /\ pc = "review"
    /\ editing
    /\ edit_line_idx # None
    /\ Strip(value) # <<>>
    /\ SubmitValue(value)

\* this step is action_delete_comment getting as far as the lookup
DeleteAtFocus ==
    /\ pc = "review"
    /\ ~editing
    /\ focused # None
    /\ action_delete_comment

\* C2 (as claimed): an accepted submission stores the comment under exactly the
\* selected line's (file_index, position_in_file), replacing any comment there, and
\* leaves every other position of every file as it was.
C2_StoredAtSelectedLine ==
    [][\A value \in Values : AcceptedSubmit(value) =>
          \A gq \in Positions(files) :
              CommentAt(files', gq[1], gq[2]) =
                  IF /\ gq[1] = LineToFile(files, edit_line_idx)
                     /\ gq[2] = PosInFile(files, edit_line_idx)
                  THEN <<Comment(files[gq[1] + 1].path,
                                 CommentLineNo(AllLines(files)[edit_line_idx + 1]),
                                 AllLines(files)[edit_line_idx + 1].hunk_header,
                                 Strip(value),
                                 AllLines(files)[edit_line_idx + 1].content)>>
                  ELSE CommentAt(files, gq[1], gq[2])]_vars

\* what the lookup of action_edit_comment returns for the line just commented
GotAfterSubmit(content) ==
    /\ ExistingComment(files', edit_line_idx) # <<>>
    /\ ExistingComment(files', edit_line_idx)[1].content = content
    /\ ExistingComment(files', edit_line_idx)[1].context =
           AllLines(files)[edit_line_idx + 1].content
    /\ ExistingComment(files', edit_line_idx)[1].hunk =
           AllLines(files)[edit_line_idx + 1].hunk_header

\* C3 (as claimed): an accepted upsert followed by the lookup for the same line
\* returns a comment whose content equals the submitted text and whose context and
\* hunk equal the line's content and hunk_header.
C3_GetReturnsSubmittedText ==
    [][\A value \in Values : AcceptedSubmit(value) => GotAfterSubmit(value)]_vars

\* C3 (amended): ... whose content equals the submitted text with its leading and
\* trailing white space removed, and whose context and hunk equal the line's.
C3_GetReturnsTrimmedText ==
    [][\A value \in Values : AcceptedSubmit(value) => GotAfterSubmit(Strip(value))]_vars

\* C3 witness: a submission has stored a comment whose text was typed with white
\* space round it, on a line that has content
C3_Witness ==
    /\ last.op = "submit" /\ last.result \in {"created", "replaced"}
    /\ \E f \in 1..Len(files) : \E k \in 1..Len(files[f].comments) :
           /\ files[f].comments[k].value.content = <<"u">>
           /\ files[f].comments[k].value.context # <<>>
           /\ files[f].comments[k].value.hunk # <<>>

UniqueKeys ==
    \A f \in 1..Len(files) : \A a, b \in 1..Len(files[f].comments) :
        files[f].comments[a].key = files[f].comments[b].key => a = b

C9_RemoveAbsentChangesNothing ==
    [][DeleteAtFocus
         /\ CommentAt(files, LineToFile(files, focused), PosInFile(files, focused)) = <<>>
       => /\ notice' = "No comment to delete on this line"
          /\ files' = files]_vars

\* C10: removing at a position that has a comment deletes exactly that entry: the
\* lookup at that position then finds nothing, the file has one comment fewer, and
\* every other position, and every line, is as it was.
C10_RemoveDeletesThatEntry ==
    [][DeleteAtFocus
         /\ CommentAt(files, LineToFile(files, focused), PosInFile(files, focused)) # <<>>
       => LET f == LineToFile(files, focused)
              p == PosInFile(files, focused)
          IN  /\ CommentAt(files', f, p) = <<>>
              /\ ExistingComment(files', focused) = <<>>
              /\ Len(files'[f + 1].comments) = Len(files[f + 1].comments) - 1
              /\ \A gq \in Positions(files) \ {<<f, p>>} :
                     CommentAt(files', gq[1], gq[2]) = CommentAt(files, gq[1], gq[2])
              /\ LinesOf(files') = LinesOf(files)
              /\ notice' = "Comment deleted"]_vars

\* C10 witness: a comment has been deleted and another one is still there
C10_Witness ==
    /\ last = Ran("delete", "deleted")
    /\ \E f \in 1..Len(files) : files[f].comments # <<>>

\* this step is on_input_submitted taking value, with nothing left after the trim
EmptySubmit(value) ==
    /\ pc = "review"
    /\ editing
    /\ edit_line_idx # None
    /\ Strip(value) = <<>>
    /\ SubmitValue(value)

\* C11: a submission whose text is empty after trimming is a cancel: its outcome is
\* the cancelled (EmptyContent) one, no comment is created or replaced (every file's
\* comments, a comment at the target position included, are as they were), no
\* "saved" notice is given, and the session leaves editing mode.
C11_EmptySubmitIsCancel ==
    [][\A value \in Values :
           EmptySubmit(value)
           => /\ last' = Ran("submit", "cancelled")
              /\ files' = files
              /\ notice' = notice
              /\ feedback' = feedback
              /\ ~editing'
              /\ edit_line_idx' = None]_vars

\* C11 witness: an empty submission has just been cancelled while every line that
\* can be selected, the target among them, holds a comment
C11_Witness ==
    /\ last = Ran("submit", "cancelled")
    /\ ~editing
    /\ Focusable(files) # {}
    /\ \A k \in Focusable(files) : ExistingComment(files, k) # <<>>

\* C12 (as claimed): a stored comment's line_no is the new_line_no of its line whenever
\* that line has one, whatever integer the parser gave it, and the old_line_no only
\* when the line has no new_line_no; for a Context line it is always the new number.
C12_LineNumberPrefersNew ==
    \A f \in 1..Len(files) : \A k \in 1..Len(files[f].comments) :
        LET line == files[f].lines[files[f].comments[k].key + 1]
            comment == files[f].comments[k].value
        IN  comment.line_no = IF line.new_line_no # None
                              THEN line.new_line_no
                              ELSE line.old_line_no

\* the number of comments stored in the document
RECURSIVE TotalComments(_)
TotalComments(fs) ==
    IF fs = <<>> THEN 0 ELSE Len(fs[1].comments) + TotalComments(Tail(fs))

\* entry e of the feedback carries the fields of comment c
CopiesComment(e, c) ==
    /\ e.file = c.file
    /\ e.line = c.line_no
    /\ e.hunk = c.hunk
    /\ e.content = c.content
    /\ e.context = c.context

\* the feedback written holds one entry per stored comment: as many entries as there
\* are comments, and each entry as often as there are comments it copies
OneEntryPerComment ==
    feedback # <<>> =>
        LET entries == feedback[1].comments
        IN  /\ Len(entries) = TotalComments(files)
            /\ TotalComments(files) = 0 => entries = <<>>
            /\ \A n \in 1..Len(entries) :
                   Cardinality({m \in 1..Len(entries) : entries[m] = entries[n]})
                   = Cardinality({fk \in (1..Len(files)) \X (1..TotalComments(files)) :
                                     /\ fk[2] <= Len(files[fk[1]].comments)
                                     /\ CopiesComment(entries[n],
                                                      files[fk[1]].comments[fk[2]].value)})

\* C13: generate_feedback emits exactly one flat entry per stored comment: the number
\* of entries is the total number of comments over all files, each entry copies the
\* file, line, hunk, content and context of its comment, the document is not modified,
\* and a document with no comments gives an empty list.
C13_OneEntryPerComment ==
    /\ []OneEntryPerComment
    /\ [][pc = "review" /\ pc' = "done" => files' = files /\ feedback' # <<>>]_vars

\* C13 witness: feedback has been written for comments stored in two files
C13_Witness ==
    /\ pc = "done"
    /\ feedback # <<>>
    /\ Len(feedback[1].comments) >= 2
    /\ Len(files) >= 2
    /\ files[1].comments # <<>>
    /\ files[2].comments # <<>>

\* C13 witness of the empty case: feedback written for a document without comments
C13_WitnessEmpty ==
    /\ pc = "done"
    /\ feedback # <<>>
    /\ feedback[1].comments = <<>>
    /\ files # <<>>

\* C18: once parse_diff has returned, no step of the session (starting the review,
\* create, edit, delete, cancel, submit, moving the focus, quit) changes any file's
\* path, the number or order of the files, or a file's sequence of lines: comments
\* are the only part of the document that changes.
C18_DocumentImmutable ==
    [][(pc = "parsed" \/ pc = "review" \/ pc = "done")
       => LinesOf(files') = LinesOf(files)]_vars

\* C18 witness: the review of the scenario diff has ended with feedback on a stored
\* comment, and its files and lines are still those parse_diff returned
C18_Witness ==
    /\ pc = "done"
    /\ feedback # <<>>
    /\ TotalComments(files) >= 1
    /\ LinesOf(files) = LinesOf(ScenarioDocument)

\* editing is true exactly when edit_line_idx is set
EditingIffIdxSet == editing <=> edit_line_idx # None

\* C19: editing is true exactly when edit_line_idx is set; while editing is true,
\* create, edit, delete and the two focus moves are no-ops that change neither the
\* comments (nor anything else of the document) nor editing nor edit_line_idx; and
\* editing mode is left only by a submit or a cancel.
C19_EditingGuards ==
    /\ []EditingIffIdxSet
    /\ [][editing /\ (\/ action_create_comment
                      \/ action_edit_comment
                      \/ action_delete_comment
                      \/ action_focus_next
                      \/ action_focus_previous)
          => /\ files' = files
             /\ editing'
             /\ edit_line_idx' = edit_line_idx]_vars
    /\ [][editing /\ ~editing' => on_input_submitted \/ action_cancel_edit]_vars

\* C19 witness: while a comment is being edited, a delete has been asked for and
\* ignored; the comment is still stored and the edit still open
C19_Witness ==
    /\ pc = "review"
    /\ editing
    /\ edit_line_idx # None
    /\ last = Ran("delete", "ignored")
    /\ ExistingComment(files, edit_line_idx) # <<>>

\* C20: every key of a file's comments is a valid index into that file's lines
\* (0 <= key < number of lines), the line at that index is not a HunkHeader, and the
\* comment stored there has the file's path as file, that line's content as context
\* and that line's hunk_header as hunk.
C20_CommentsMatchLines ==
    \A f \in 1..Len(files) : \A k \in 1..Len(files[f].comments) :
        LET key == files[f].comments[k].key
            comment == files[f].comments[k].value
        IN  /\ 0 <= key
            /\ key < Len(files[f].lines)
            /\ ~IsHeader(files[f].lines[key + 1])
            /\ comment.file = files[f].path
            /\ comment.context = files[f].lines[key + 1].content
            /\ comment.hunk = files[f].lines[key + 1].hunk_header

\* C20 witness: the second file holds a comment on a line past its hunk header, and
\* the first file holds one too
C20_Witness ==
    /\ Len(files) >= 2
    /\ files[1].comments # <<>>
    /\ \E k \in 1..Len(files[2].comments) :
           /\ files[2].comments[k].key >= 1
           /\ IsHeader(files[2].lines[1])
           /\ files[2].comments[k].value.hunk # <<>>

====
